---- MODULE Spec2Model ----
(***************************************************************************)
(* Meeting-Room-Booking backend: the in-memory reservation store of        *)
(* main.py, the two booking-creation handlers (create_booking of main.py   *)
(* and create_booking_service of services.py), cancel_booking and          *)
(* get_room_bookings.                                                      *)
(*                                                                         *)
(* Time is counted in ticks, TicksPerHour to the hour.  A datetime is a    *)
(* record [wall, aware, off]: its wall-clock fields as a tick count, and   *)
(* its tzinfo (none when aware is FALSE, else a UTC offset in ticks).      *)
(***************************************************************************)
EXTENDS Integers, Sequences, FiniteSets, TLC

\* ---------------------------------------------------------------- bounds
\* Resolution of the clock: ticks in an hour (the sub-hour fields minute,
\* second, microsecond of a datetime are wall % TicksPerHour).
TicksPerHour == 2
\* The calendar, scaled down: hours in a day, days in a year.
HoursPerDay == 2
DaysPerYear == 2
\* The one non-zero UTC offset a request may carry, in ticks.
TzOffset == 1
\* How far the clock advances.
MaxClock == 1
\* Bookings stored at one time, and codes uuid4 hands out.
MaxBookings == 2
MaxCodes == 3
\* Worker threads of the server handling calls at the same time.
Workers == 2

\* ------------------------------------------------------ program constants
MAX_DURATION_HOURS == 3

TicksPerDay == HoursPerDay * TicksPerHour
TicksPerYear == DaysPerYear * TicksPerDay
MaxDurationTicks == MAX_DURATION_HOURS * TicksPerHour

\* The behaviours start MAX_DURATION_HOURS + 1 hours before the end of the
\* second year of the calendar (no wall-clock value is negative).
YearEnd == 2 * TicksPerYear
NowInit == YearEnd - (MaxDurationTicks + TicksPerHour)

\* ------------------------------------------------------------- datetimes
Naive(w) == [wall |-> w, aware |-> FALSE, off |-> 0]
Aware(w, o) == [wall |-> w, aware |-> TRUE, off |-> o]
NoDt == [wall |-> 0, aware |-> FALSE, off |-> 0]

\* The absolute instant of an aware datetime, in ticks.
Instant(dt) == dt.wall - dt.off
\* dt.replace(tzinfo=timezone.utc): the fields stay, the zone is set.
ReplaceUtc(dt) == Aware(dt.wall, 0)
\* dt.astimezone(timezone.utc): the instant stays, the fields move.
AsTimezoneUtc(dt) == Aware(dt.wall - dt.off, 0)
\* dt.year, and "dt.minute != 0 or dt.second != 0 or dt.microsecond != 0".
YearOf(dt) == dt.wall \div TicksPerYear
OffHour(dt) == dt.wall % TicksPerHour # 0
\* dt.date()
DateOf(dt) == dt.wall \div TicksPerDay
\* a - b and a < b raise TypeError when one is naive and the other aware.
Mixed(a, b) == a.aware # b.aware
Diff(a, b) == IF a.aware THEN Instant(a) - Instant(b) ELSE a.wall - b.wall
Before(a, b) == IF a.aware THEN Instant(a) < Instant(b) ELSE a.wall < b.wall
NotAfter(a, b) == IF a.aware THEN Instant(a) <= Instant(b) ELSE a.wall <= b.wall

ensure_utc(dt) == IF ~dt.aware THEN ReplaceUtc(dt) ELSE AsTimezoneUtc(dt)

\* ------------------------------------------------------------ the store
\* rooms and bookings of main.py.  bookings is a dict: its entries in
\* insertion order, each a room and the list object stored under it; heap
\* holds the list objects, by identity (a list outlives the dict entry that
\* named it, and two names may share one list).
rooms == <<"Room A", "Room B", "Room C">>

VARIABLES
    bookings,   \* the dict: Seq of [room, list], list an index of heap
    heap,       \* the list objects: Seq of Seq of bookings
    clock,      \* datetime.now(timezone.utc), in ticks
    nextCode,   \* the next value uuid4 returns
    last,       \* the last request handled and its response
    pc, rq, rb, idx, found, resp
                \* the worker threads: position, request, the locals
                \* room_bookings, loop positions and (new) booking, and
                \* the response of the thread's last call

vars == <<bookings, heap, clock, nextCode, last, pc, rq, rb, idx, found, resp>>
store == <<bookings, heap>>
threads == <<pc, rq, rb, idx, found, resp>>

Booking(room, start, end, code) ==
    [room |-> room, start |-> start, end |-> end, code |-> code]
NoBooking == Booking("", NoDt, NoDt, 0)

RoomList == {rooms[i] : i \in 1..Len(rooms)}
now == Aware(clock, 0)

Keys(d) == {d[i].room : i \in 1..Len(d)}
\* The list object stored under a key of the dict (0: no such key).
ListOf(d, room) ==
    IF room \in Keys(d)
    THEN (CHOOSE i \in 1..Len(d) : d[i].room = room) \* keys are unique
    ELSE 0
ListId(d, room) == IF ListOf(d, room) = 0 THEN 0 ELSE d[ListOf(d, room)].list
\* bookings.get(room, []) as a value: the bookings listed under room.
Stored(d, h, room) == IF ListId(d, room) = 0 THEN <<>> ELSE h[ListId(d, room)]
Range(seq) == {seq[i] : i \in 1..Len(seq)}
AllStored(d, h) == UNION {Range(Stored(d, h, r)) : r \in Keys(d)}
RECURSIVE Total(_, _, _)
Total(d, h, i) == IF i > Len(d) THEN 0 ELSE Len(h[d[i].list]) + Total(d, h, i + 1)

\* ------------------------------------------------ the validation pipeline
\* services.py, create_booking_service, lines 11-51: the outcome of the
\* checks made before the store is read.
ServiceChecksAtLeast(room, start, end, t) ==
    IF room \notin RoomList THEN "RoomNotFound"
    ELSE LET s == ensure_utc(start)
             e == ensure_utc(end)
             duration == Diff(e, s)
         IN  IF duration <= 0 THEN "InvalidInterval"
             ELSE IF duration >= MaxDurationTicks THEN "DurationExceeded"
             ELSE IF Before(s, t) THEN "PastBooking"
             ELSE IF OffHour(s) THEN "MisalignedStart"
             ELSE IF YearOf(s) # YearOf(t) \/ YearOf(e) # YearOf(t)
                  THEN "OutOfYearRange"
             ELSE "OK"
ServiceChecksHourFirst(room, start, end, t) ==
    IF room \notin RoomList THEN "RoomNotFound"
    ELSE LET s == ensure_utc(start)
             e == ensure_utc(end)
             duration == Diff(e, s)
         IN  IF duration <= 0 THEN "InvalidInterval"
             ELSE IF duration > MaxDurationTicks THEN "DurationExceeded"
             ELSE IF OffHour(s) THEN "MisalignedStart"
             ELSE IF Before(s, t) THEN "PastBooking"
             ELSE IF YearOf(s) # YearOf(t) \/ YearOf(e) # YearOf(t)
                  THEN "OutOfYearRange"
             ELSE "OK"
ServiceChecksStartYear(room, start, end, t) ==
    IF room \notin RoomList THEN "RoomNotFound"
    ELSE LET s == ensure_utc(start)
             e == ensure_utc(end)
             duration == Diff(e, s)
         IN  IF duration <= 0 THEN "InvalidInterval"
             ELSE IF duration > MaxDurationTicks THEN "DurationExceeded"
             ELSE IF Before(s, t) THEN "PastBooking"
             ELSE IF OffHour(s) THEN "MisalignedStart"
             ELSE IF YearOf(s) # YearOf(t) THEN "OutOfYearRange"
             ELSE "OK"
ServiceChecks(room, start, end, t) ==
    IF room \notin RoomList THEN "RoomNotFound"
    ELSE LET s == ensure_utc(start)
             e == ensure_utc(end)
             duration == Diff(e, s)
         IN  IF duration <= 0 THEN "InvalidInterval"
             ELSE IF duration > MaxDurationTicks THEN "DurationExceeded"
             ELSE IF Before(s, t) THEN "PastBooking"
             ELSE IF OffHour(s) THEN "MisalignedStart"
             ELSE IF YearOf(s) # YearOf(t) \/ YearOf(e) # YearOf(t)
                  THEN "OutOfYearRange"
             ELSE "OK"

\* main.py, lines 88-91 and 120-123: a naive datetime is given the UTC zone,
\* an aware one is left as it is.
UtcIfNaive(dt) == IF ~dt.aware THEN ReplaceUtc(dt) ELSE dt

\* main.py, create_booking, lines 59-111.  The subtraction of line 68 is
\* made on the request's datetimes as they came.
MainChecks(room, start, end, t) ==
    IF room \notin RoomList THEN "RoomNotFound"
    ELSE IF Mixed(end, start) THEN "TypeError"
    ELSE LET duration == Diff(end, start)
             s == UtcIfNaive(start)
             e == UtcIfNaive(end)
         IN  IF duration <= 0 THEN "InvalidInterval"
             ELSE IF duration > MaxDurationTicks THEN "DurationExceeded"
             ELSE IF NotAfter(end, start) THEN "InvalidInterval"
             ELSE IF Before(s, t) THEN "PastBooking"
             ELSE IF OffHour(s) THEN "MisalignedStart"
             ELSE IF YearOf(s) # YearOf(t) \/ YearOf(e) # YearOf(t)
                  THEN "OutOfYearRange"
             ELSE "OK"

\* The datetimes the handlers go on with, and store.
ServiceStart(start) == ensure_utc(start)
ServiceEnd(end) == ensure_utc(end)
MainStart(start) == UtcIfNaive(start)
MainEnd(end) == UtcIfNaive(end)

\* services.py line 59 and main.py line 125: the test made on one existing
\* booking b, for the proposed start s and end e.
ServiceConflictClosed(b, s, e) ==
    ~(Before(e, ensure_utc(b.start)) \/ Before(ensure_utc(b.end), s))
ServiceConflictStartOnly(b, s, e) ==
    NotAfter(ensure_utc(b.start), s) /\ Before(s, ensure_utc(b.end))
ServiceConflict(b, s, e) ==
    ~(NotAfter(e, ensure_utc(b.start)) \/ NotAfter(ensure_utc(b.end), s))
MainConflict(b, s, e) ==
    ~(NotAfter(e, UtcIfNaive(b.start)) \/ NotAfter(UtcIfNaive(b.end), s))

\* The loops of services.py 55-63 and main.py 116-129 over a list.
RECURSIVE ServiceScan(_, _, _, _)
ServiceScan(list, i, s, e) ==
    IF i > Len(list) THEN "OK"
    ELSE IF ServiceConflict(list[i], s, e) THEN "SlotConflict"
    ELSE ServiceScan(list, i + 1, s, e)
RECURSIVE MainScan(_, _, _, _)
MainScan(list, i, s, e) ==
    IF i > Len(list) THEN "OK"
    ELSE IF MainConflict(list[i], s, e) THEN "SlotConflict"
    ELSE MainScan(list, i + 1, s, e)

\* The outcome of a whole call, on the store (d, h) at time t.
ServiceOutcome(d, h, room, start, end, t) ==
    IF ServiceChecks(room, start, end, t) # "OK"
    THEN ServiceChecks(room, start, end, t)
    ELSE ServiceScan(Stored(d, h, room), 1, ServiceStart(start), ServiceEnd(end))
MainOutcome(d, h, room, start, end, t) ==
    IF MainChecks(room, start, end, t) # "OK"
    THEN MainChecks(room, start, end, t)
    ELSE MainScan(Stored(d, h, room), 1, MainStart(start), MainEnd(end))

\* room_bookings.append(new_booking); bookings[room] = room_bookings, for
\* room_bookings = bookings.get(room, []) (services.py 54, 74-75; main.py
\* 114, 140-141): a room with no entry gets a new list object and an entry.
AppendedHeapFront(d, h, room, b) ==
    IF ListId(d, room) = 0
    THEN Append(h, <<b>>)
    ELSE [h EXCEPT ![ListId(d, room)] = <<b>> \o @]
AppendedHeap(d, h, room, b) ==
    IF ListId(d, room) = 0
    THEN Append(h, <<b>>)
    ELSE [h EXCEPT ![ListId(d, room)] = Append(@, b)]
AppendedDict(d, h, room) ==
    IF ListId(d, room) = 0
    THEN Append(d, [room |-> room, list |-> Len(h) + 1])
    ELSE d

\* main.py, cancel_booking, lines 146-148: the first booking with the code,
\* going through the dict's entries in order and each list in order, as
\* <<entry, position>>; <<0, 0>> when the loops end without a match.
RECURSIVE FirstWithCode(_, _)
FirstWithCode(list, code) ==
    IF list = <<>> THEN 0
    ELSE IF Head(list).code = code THEN 1
    ELSE IF FirstWithCode(Tail(list), code) = 0 THEN 0
    ELSE 1 + FirstWithCode(Tail(list), code)
FindCodeFirstEntry(d, h, i, code) ==
    IF i > Len(d) THEN <<0, 0>>
    ELSE <<IF FirstWithCode(h[d[i].list], code) # 0 THEN i ELSE 0,
           FirstWithCode(h[d[i].list], code)>>
RECURSIVE FindCode(_, _, _, _)
FindCode(d, h, i, code) ==
    IF i > Len(d) THEN <<0, 0>>
    ELSE IF FirstWithCode(h[d[i].list], code) # 0
         THEN <<i, FirstWithCode(h[d[i].list], code)>>
    ELSE FindCode(d, h, i + 1, code)

\* list.remove(x): the first element equal to x is taken out (line 149).
RemoveHead(list, x) == IF list = <<>> THEN <<>> ELSE Tail(list)
RECURSIVE RemoveThrough(_, _)
RemoveThrough(list, x) ==
    IF list = <<>> THEN <<>>
    ELSE IF Head(list) = x THEN Tail(list)
    ELSE RemoveThrough(Tail(list), x)
RECURSIVE RemoveFirst(_, _)
RemoveFirst(list, x) ==
    IF list = <<>> THEN <<>>
    ELSE IF Head(list) = x THEN Tail(list)
    ELSE <<Head(list)>> \o RemoveFirst(Tail(list), x)

\* main.py, get_room_bookings, lines 46-54.  NoDate stands for None.
NoDate == 0 - 1
RECURSIVE InRange(_, _, _)
InRange(list, sd, ed) ==
    IF list = <<>> THEN <<>>
    ELSE IF sd <= DateOf(Head(list).start) /\ DateOf(Head(list).start) <= ed
         THEN <<Head(list)>> \o InRange(Tail(list), sd, ed)
    ELSE InRange(Tail(list), sd, ed)
RoomBookings(d, h, room, sd, ed) ==
    IF sd # NoDate /\ ed # NoDate
    THEN InRange(Stored(d, h, room), sd, ed)
    ELSE Stored(d, h, room)

\* ---------------------------------------------------------- the requests
\* Rooms a request names: two of the registry and one that is not in it.
RoomInputs == {"Room A", "Room B", "Room X"}
\* The two timestamps of a request, for a start at wall-clock w and an end
\* n ticks later on the wall clock: both naive, both UTC, both with the
\* offset, or one naive and the other UTC.
Stamps(w, n) ==
    {<<Naive(w), Naive(w + n)>>,
     <<Aware(w, 0), Aware(w + n, 0)>>,
     <<Aware(w, TzOffset), Aware(w + n, TzOffset)>>,
     <<Naive(w), Aware(w + n, 0)>>,
     <<Aware(w, 0), Naive(w + n)>>}
StartWalls == (NowInit - 1)..(YearEnd + TicksPerHour)
\* Lengths of the requested interval on the wall clock: none, an hour, the
\* longest allowed, and one tick more.
Lengths == {0, TicksPerHour, MaxDurationTicks, MaxDurationTicks + 1}
Request(room, start, end) == [room |-> room, start |-> start, end |-> end]
Requests ==
    {Request(room, se[1], se[2]) :
        room \in RoomInputs,
        se \in UNION {Stamps(w, n) : w \in StartWalls, n \in Lengths}}
Clocks == NowInit..(NowInit + MaxClock)
CodeInputs == 0..MaxCodes
\* The dates of a listing: none, or a day of the hours left in the year.
DateInputs == {NoDate} \cup (DateOf(Naive(NowInit)))..(DateOf(Naive(YearEnd - 1)))
Threads == 1..Workers

\* A thread's call (the handler, and its arguments as a booking), its loop
\* positions (i in a list; k in the dict, of n entries when the loop began)
\* and its answer.
Call(op, b) == [op |-> op, room |-> b.room, start |-> b.start, end |-> b.end,
                code |-> b.code]
Local(i, k, n) == [i |-> i, k |-> k, n |-> n]
Answer(r, b) == [r |-> r, b |-> b]

Response(op, r, b, arg, out) ==
    [op |-> op, r |-> r, b |-> b, arg |-> arg, out |-> out]

Init ==
    /\ bookings = <<>>
    /\ heap = <<>>
    /\ clock = NowInit
    /\ nextCode = 1
    /\ last = Response("none", "OK", NoBooking, 0, <<>>)
    /\ pc = [t \in Threads |-> "idle"]
    /\ rq = [t \in Threads |-> Call("none", NoBooking)]
    /\ rb = [t \in Threads |-> 0]
    /\ idx = [t \in Threads |-> Local(0, 0, 0)]
    /\ found = [t \in Threads |-> NoBooking]
    /\ resp = [t \in Threads |-> Answer("none", NoBooking)]

\* str(uuid4()) of services.py line 66 and main.py line 132, as the n-th
\* value the process draws: 122 random bits, taken to differ from every
\* value drawn before (the handlers make no check of their own).
uuid4Recycled(n) == 1 + ((n - 1) % 2)
uuid4(n) == n

\* ------------------------------------- the handlers, one call at a time
\* Lines 65-76 of services.py and 131-142 of main.py, for a request that
\* passed every check: the booking is stored and returned.
Book(op, room, s, e) ==
    LET b == Booking(room, s, e, uuid4(nextCode))
    IN  /\ Total(bookings, heap, 1) < MaxBookings
        /\ nextCode <= MaxCodes
        /\ heap' = AppendedHeap(bookings, heap, room, b)
        /\ bookings' = AppendedDict(bookings, heap, room)
        /\ nextCode' = nextCode + 1
        /\ last' = Response(op, "OK", b, 0, <<>>)

\* A call that raises (an HTTPException of the handler, the TypeError of
\* main.py line 68): b holds what the call had in hand, the requested
\* booking or the code.  Nothing is written before a raise.
FailAfterAppend(op, r, b) ==
    /\ last' = Response(op, r, NoBooking, b.code, <<>>)
    /\ IF b.room \in RoomList
       THEN /\ heap' = AppendedHeap(bookings, heap, b.room, b)
            /\ bookings' = AppendedDict(bookings, heap, b.room)
       ELSE UNCHANGED <<bookings, heap>>
    /\ UNCHANGED nextCode
Fail(op, r, b) ==
    /\ last' = Response(op, r, NoBooking, b.code, <<>>)
    /\ UNCHANGED <<bookings, heap, nextCode>>

\* The checks of lines 11-51 (59-111 in main.py) read the request and the
\* clock only: the requests are taken by what these checks answer at each
\* time, once for all states.
ServiceRejects ==
    [t \in Clocks |->
        {ServiceChecks(q.room, q.start, q.end, Aware(t, 0)) : q \in Requests}
            \ {"OK"}]
ServicePasses ==
    [t \in Clocks |->
        {q \in Requests :
            ServiceChecks(q.room, q.start, q.end, Aware(t, 0)) = "OK"}]
MainRejects ==
    [t \in Clocks |->
        {MainChecks(q.room, q.start, q.end, Aware(t, 0)) : q \in Requests}
            \ {"OK"}]
MainPasses ==
    [t \in Clocks |->
        {q \in Requests :
            MainChecks(q.room, q.start, q.end, Aware(t, 0)) = "OK"}]

create_booking_service ==
    /\ \/ \E r \in ServiceRejects[clock] :
            Fail("create_booking_service", r, NoBooking)
       \/ \E q \in ServicePasses[clock] :
            IF ServiceOutcome(bookings, heap, q.room, q.start, q.end, now) = "OK"
            THEN Book("create_booking_service", q.room,
                      ServiceStart(q.start), ServiceEnd(q.end))
            ELSE Fail("create_booking_service",
                      ServiceOutcome(bookings, heap, q.room, q.start, q.end, now),
                      Booking(q.room, ServiceStart(q.start), ServiceEnd(q.end), 0))
    /\ UNCHANGED <<clock, threads>>

create_booking ==
    /\ \/ \E r \in MainRejects[clock] : Fail("create_booking", r, NoBooking)
       \/ \E q \in MainPasses[clock] :
            IF MainOutcome(bookings, heap, q.room, q.start, q.end, now) = "OK"
            THEN Book("create_booking", q.room,
                      MainStart(q.start), MainEnd(q.end))
            ELSE Fail("create_booking",
                      MainOutcome(bookings, heap, q.room, q.start, q.end, now),
                      Booking(q.room, MainStart(q.start), MainEnd(q.end), 0))
    /\ UNCHANGED <<clock, threads>>

cancel_booking ==
    \E code \in CodeInputs :
        LET at == FindCode(bookings, heap, 1, code)
        IN  /\ IF at[1] = 0
               THEN Fail("cancel_booking", "InvalidCode",
                         Booking("", NoDt, NoDt, code))
               ELSE LET id == bookings[at[1]].list
                        booking == heap[id][at[2]]
                    IN  /\ heap' = [heap EXCEPT ![id] = RemoveFirst(@, booking)]
                        /\ last' = Response("cancel_booking", "OK", booking,
                                            code, <<>>)
                        /\ UNCHANGED <<bookings, nextCode>>
            /\ UNCHANGED <<clock, threads>>

\* The store after bookings.get(room, []) of main.py line 46: get leaves
\* the dict as it is, also when it has no entry for the room.
StoreAfterSetDefault(d, h, room) ==
    IF room \in Keys(d) THEN <<d, h>>
    ELSE <<Append(d, [room |-> room, list |-> Len(h) + 1]), Append(h, <<>>)>>
StoreAfterGet(d, h, room) == <<d, h>>

get_room_bookings ==
    \E room \in RoomInputs, sd \in DateInputs, ed \in DateInputs :
        /\ last' = Response("get_room_bookings", "OK",
                            Booking(room, NoDt, NoDt, 0), 0,
                            RoomBookings(bookings, heap, room, sd, ed))
        /\ bookings' = StoreAfterGet(bookings, heap, room)[1]
        /\ heap' = StoreAfterGet(bookings, heap, room)[2]
        /\ UNCHANGED <<nextCode, clock, threads>>

\* Time passes between two calls.
Tick ==
    /\ clock < NowInit + MaxClock
    /\ clock' = clock + 1
    /\ UNCHANGED <<bookings, heap, nextCode, last, threads>>

Next ==
    \/ create_booking_service
    \/ create_booking
    \/ cancel_booking
    \/ get_room_bookings
    \/ Tick

Spec == Init /\ [][Next]_vars

\* ------------------------------- the handlers, run by concurrent threads
\* The server runs each call on a thread of its pool; no handler takes a
\* lock.  A step of a thread is one access to the store (bookings and the
\* list objects), with the thread-local computation around it.

\* The requests of the threads: one room, an hour or the longest interval
\* from now, and the hour after it (the last one does not pass the checks).
RaceRequests ==
    {Request("Room A", Aware(NowInit, 0), Aware(NowInit + TicksPerHour, 0)),
     Request("Room A", Aware(NowInit, 0), Aware(NowInit + MaxDurationTicks, 0)),
     Request("Room A", Aware(NowInit + TicksPerHour, 0),
             Aware(NowInit + 2 * TicksPerHour, 0)),
     Request("Room A", Naive(NowInit), Naive(NowInit))}
\* The codes they cancel: every code that is, or may come to be, issued.
RaceCodes == 1..MaxCodes
ChecksOf(impl, q) ==
    IF impl = "service" THEN ServiceChecks(q.room, q.start, q.end, now)
    ELSE MainChecks(q.room, q.start, q.end, now)
ConflictOf(impl, b, s, e) ==
    IF impl = "service" THEN ServiceConflict(b, s, e) ELSE MainConflict(b, s, e)

\* The call returns (or raises): the answer is kept, the locals are gone.
Reply(t, r, b) ==
    /\ resp' = [resp EXCEPT ![t] = Answer(r, b)]
    /\ pc' = [pc EXCEPT ![t] = "idle"]
    /\ rq' = [rq EXCEPT ![t] = Call("none", NoBooking)]
    /\ rb' = [rb EXCEPT ![t] = 0]
    /\ idx' = [idx EXCEPT ![t] = Local(0, 0, 0)]
    /\ found' = [found EXCEPT ![t] = NoBooking]

\* services.py 9-54, main.py 57-114: the checks, then
\* room_bookings = bookings.get(room, []).
t_create(t) ==
    /\ pc[t] = "idle"
    /\ \E impl \in {"service", "main"}, q \in RaceRequests :
        IF ChecksOf(impl, q) # "OK"
        THEN /\ Reply(t, ChecksOf(impl, q), NoBooking)
             /\ UNCHANGED <<bookings, heap>>
        ELSE /\ rq' = [rq EXCEPT ![t] =
                    Call(impl,
                         IF impl = "service"
                         THEN Booking(q.room, ServiceStart(q.start),
                                      ServiceEnd(q.end), 0)
                         ELSE Booking(q.room, MainStart(q.start),
                                      MainEnd(q.end), 0))]
             /\ rb' = [rb EXCEPT ![t] =
                    IF ListId(bookings, q.room) = 0 THEN Len(heap) + 1
                    ELSE ListId(bookings, q.room)]
             /\ heap' = IF ListId(bookings, q.room) = 0
                        THEN Append(heap, <<>>) ELSE heap
             /\ idx' = [idx EXCEPT ![t] = Local(1, 0, 0)]
             /\ pc' = [pc EXCEPT ![t] = "scan"]
             /\ resp' = [resp EXCEPT ![t] = Answer("none", NoBooking)]
             /\ UNCHANGED <<bookings, found>>
    /\ UNCHANGED <<clock, nextCode, last>>

\* services.py 55-63, main.py 116-129: one turn of the loop over the list.
t_scan(t) ==
    /\ pc[t] = "scan"
    /\ IF idx[t].i > Len(heap[rb[t]])
       THEN /\ pc' = [pc EXCEPT ![t] = "append"]
            /\ UNCHANGED <<rq, rb, idx, found, resp>>
       ELSE IF ConflictOf(rq[t].op, heap[rb[t]][idx[t].i], rq[t].start, rq[t].end)
       THEN Reply(t, "SlotConflict", NoBooking)
       ELSE /\ idx' = [idx EXCEPT ![t] = Local(idx[t].i + 1, 0, 0)]
            /\ UNCHANGED <<pc, rq, rb, found, resp>>
    /\ UNCHANGED <<bookings, heap, clock, nextCode, last>>

\* services.py 66-74, main.py 132-140: room_bookings.append(new_booking).
t_append(t) ==
    /\ pc[t] = "append"
    /\ nextCode <= MaxCodes
    /\ LET b == Booking(rq[t].room, rq[t].start, rq[t].end, uuid4(nextCode))
       IN  /\ heap' = [heap EXCEPT ![rb[t]] = Append(@, b)]
           /\ found' = [found EXCEPT ![t] = b]
    /\ nextCode' = nextCode + 1
    /\ pc' = [pc EXCEPT ![t] = "store"]
    /\ UNCHANGED <<bookings, clock, last, rq, rb, idx, resp>>

\* services.py 75-76, main.py 141-142: bookings[room] = room_bookings.
t_store(t) ==
    /\ pc[t] = "store"
    /\ bookings' =
          IF ListOf(bookings, rq[t].room) = 0
          THEN Append(bookings, [room |-> rq[t].room, list |-> rb[t]])
          ELSE [bookings EXCEPT ![ListOf(bookings, rq[t].room)].list = rb[t]]
    /\ Reply(t, "OK", found[t])
    /\ UNCHANGED <<heap, clock, nextCode, last>>

\* main.py 145-146: the call, and the iterator over bookings.items().
t_cancel(t) ==
    /\ pc[t] = "idle"
    /\ \E code \in RaceCodes :
          rq' = [rq EXCEPT ![t] = Call("cancel", Booking("", NoDt, NoDt, code))]
    /\ idx' = [idx EXCEPT ![t] = Local(0, 1, Len(bookings))]
    /\ pc' = [pc EXCEPT ![t] = "rooms"]
    /\ resp' = [resp EXCEPT ![t] = Answer("none", NoBooking)]
    /\ UNCHANGED <<bookings, heap, clock, nextCode, last, rb, found>>

\* main.py 146, 157: the next entry of the dict.  The iterator raises
\* RuntimeError when the dict has changed size since the loop began.
t_room(t) ==
    /\ pc[t] = "rooms"
    /\ IF Len(bookings) # idx[t].n
       THEN Reply(t, "RuntimeError", NoBooking)
       ELSE IF idx[t].k > Len(bookings)
       THEN Reply(t, "InvalidCode", NoBooking)
       ELSE /\ rb' = [rb EXCEPT ![t] = bookings[idx[t].k].list]
            /\ idx' = [idx EXCEPT ![t] = Local(1, idx[t].k + 1, idx[t].n)]
            /\ pc' = [pc EXCEPT ![t] = "list"]
            /\ UNCHANGED <<rq, found, resp>>
    /\ UNCHANGED <<bookings, heap, clock, nextCode, last>>

\* main.py 147-148: the next booking of the list, and the test of its code.
t_booking(t) ==
    /\ pc[t] = "list"
    /\ IF idx[t].i > Len(heap[rb[t]])
       THEN /\ pc' = [pc EXCEPT ![t] = "rooms"]
            /\ UNCHANGED <<idx, found>>
       ELSE IF heap[rb[t]][idx[t].i].code = rq[t].code
       THEN /\ found' = [found EXCEPT ![t] = heap[rb[t]][idx[t].i]]
            /\ pc' = [pc EXCEPT ![t] = "remove"]
            /\ UNCHANGED idx
       ELSE /\ idx' = [idx EXCEPT ![t] = Local(idx[t].i + 1, idx[t].k, idx[t].n)]
            /\ UNCHANGED <<pc, found>>
    /\ UNCHANGED <<bookings, heap, clock, nextCode, last, rq, rb, resp>>

\* main.py 149-155: room_bookings.remove(booking), which raises ValueError
\* when the list no longer holds the booking, and the response.
t_remove(t) ==
    /\ pc[t] = "remove"
    /\ IF found[t] \in Range(heap[rb[t]])
       THEN /\ heap' = [heap EXCEPT ![rb[t]] = RemoveFirst(@, found[t])]
            /\ Reply(t, "OK", found[t])
       ELSE /\ Reply(t, "ValueError", NoBooking)
            /\ UNCHANGED heap
    /\ UNCHANGED <<bookings, clock, nextCode, last>>

NextConc ==
    \E t \in Threads :
        \/ t_create(t)
        \/ t_scan(t)
        \/ t_append(t)
        \/ t_store(t)
        \/ t_cancel(t)
        \/ t_room(t)
        \/ t_booking(t)
        \/ t_remove(t)

SpecConc == Init /\ [][NextConc]_vars

\* ------------------------------------------------ ensure_utc, on its own
\* The datetimes Python represents run from datetime.min to datetime.max:
\* here the ticks of CalendarYears years, from tick 0.
CalendarYears == 4
DatetimeMax == CalendarYears * TicksPerYear - 1
Representable(w) == w \in 0..DatetimeMax
\* dt.astimezone(timezone.utc) raises OverflowError ("date value out of
\* range") when the UTC fields of an aware dt are not representable; the
\* replace of line 7 raises nothing.
EnsureUtcRaises(dt) == dt.aware /\ ~Representable(dt.wall - dt.off)

\* Every timestamp of the calendar: without a zone, in UTC, and at an
\* offset east or west of it.
Timestamps ==
    {Naive(w) : w \in 0..DatetimeMax}
        \cup {Aware(w, o) : w \in 0..DatetimeMax, o \in {0, TzOffset, 0 - TzOffset}}

InitUtc ==
    /\ \E dt \in Timestamps :
          last = Response("timestamp", "OK", Booking("", dt, NoDt, 0), 0, <<>>)
    /\ bookings = <<>>
    /\ heap = <<>>
    /\ clock = NowInit
    /\ nextCode = 1
    /\ pc = [t \in Threads |-> "idle"]
    /\ rq = [t \in Threads |-> Call("none", NoBooking)]
    /\ rb = [t \in Threads |-> 0]
    /\ idx = [t \in Threads |-> Local(0, 0, 0)]
    /\ found = [t \in Threads |-> NoBooking]
    /\ resp = [t \in Threads |-> Answer("none", NoBooking)]

\* ensure_utc(dt): last.b holds dt as start and what the call returns as
\* end.
call_ensure_utc ==
    /\ last.op = "timestamp"
    /\ last' = IF EnsureUtcRaises(last.b.start)
               THEN Response("ensure_utc", "OverflowError", last.b, 0, <<>>)
               ELSE Response("ensure_utc", "OK",
                             Booking("", last.b.start, ensure_utc(last.b.start), 0),
                             0, <<>>)
    /\ UNCHANGED <<bookings, heap, clock, nextCode, threads>>

\* ensure_utc(ensure_utc(dt)): last.out holds what the second call returns.
call_ensure_utc_again ==
    /\ last.op = "ensure_utc"
    /\ last.r = "OK"
    /\ last' = IF EnsureUtcRaises(last.b.end)
               THEN Response("ensure_utc twice", "OverflowError", last.b, 0, <<>>)
               ELSE Response("ensure_utc twice", "OK", last.b, 0,
                             <<ensure_utc(last.b.end)>>)
    /\ UNCHANGED <<bookings, heap, clock, nextCode, threads>>

NextUtc ==
    \/ call_ensure_utc
    \/ call_ensure_utc_again

SpecUtc == InitUtc /\ [][NextUtc]_vars

\* ================================================================ claims
\* The UTC instant a timestamp denotes, a naive one read as UTC, and the
\* outcome the ordered checks of the booking rules give a request.
UtcInstant(dt) == IF dt.aware THEN dt.wall - dt.off ELSE dt.wall
Disjoint(b1, b2) ==
    \/ UtcInstant(b1.end) <= UtcInstant(b2.start)
    \/ UtcInstant(b2.end) <= UtcInstant(b1.start)
Overlaps(b, start, end) ==
    ~(UtcInstant(end) <= UtcInstant(b.start) \/ UtcInstant(start) >= UtcInstant(b.end))
Duration(start, end) == UtcInstant(end) - UtcInstant(start)
Creates == {"create_booking_service", "create_booking"}

\* C1: with the calls made one at a time from an empty store, no two
\* distinct bookings stored for a room overlap as half-open intervals.
C1_NoOverlap ==
    \A room \in Keys(bookings) :
        LET list == Stored(bookings, heap, room)
        IN  \A i, j \in 1..Len(list) : i # j => Disjoint(list[i], list[j])
\* Two bookings of one room, the second starting when the first ends.
C1_Witness ==
    \E room \in Keys(bookings) :
        \E b1, b2 \in Range(Stored(bookings, heap, room)) :
            b1 # b2 /\ UtcInstant(b1.end) = UtcInstant(b2.start)

\* C2: the bookings that concurrent creates answered with and that are
\* stored for one room do not overlap (the scan and the append of a create
\* are one step with respect to the other create).
C2_ScanAppendAtomic ==
    \A t1, t2 \in Threads :
        (/\ t1 # t2
         /\ resp[t1].r = "OK" /\ resp[t2].r = "OK"
         /\ resp[t1].b.room = resp[t2].b.room
         /\ resp[t1].b \in AllStored(bookings, heap)
         /\ resp[t2].b \in AllStored(bookings, heap))
        => Disjoint(resp[t1].b, resp[t2].b)

\* The first check that fails, in the order of the claim, for a request on
\* the store at time t; "OK" when none fails.
FirstFailure(d, h, room, start, end, t) ==
    IF room \notin RoomList THEN "RoomNotFound"
    ELSE IF Duration(start, end) <= 0 THEN "InvalidInterval"
    ELSE IF Duration(start, end) > MaxDurationTicks THEN "DurationExceeded"
    ELSE IF UtcInstant(start) < t THEN "PastBooking"
    ELSE IF UtcInstant(start) % TicksPerHour # 0 THEN "MisalignedStart"
    ELSE IF \/ UtcInstant(start) \div TicksPerYear # t \div TicksPerYear
            \/ UtcInstant(end) \div TicksPerYear # t \div TicksPerYear
         THEN "OutOfYearRange"
    ELSE IF \E b \in Range(Stored(d, h, room)) : Overlaps(b, start, end)
         THEN "SlotConflict"
    ELSE "OK"

\* C3: both handlers answer every request with the first failing check of
\* the fixed order, and with a booking when no check fails.
C3_FixedOrder ==
    \A q \in Requests :
        /\ ServiceOutcome(bookings, heap, q.room, q.start, q.end, now)
              = FirstFailure(bookings, heap, q.room, q.start, q.end, clock)
        /\ MainOutcome(bookings, heap, q.room, q.start, q.end, now)
              = FirstFailure(bookings, heap, q.room, q.start, q.end, clock)
\* The same of create_booking_service alone.
C3_ServiceFixedOrder ==
    \A q \in Requests :
        ServiceOutcome(bookings, heap, q.room, q.start, q.end, now)
            = FirstFailure(bookings, heap, q.room, q.start, q.end, clock)

\* C4: a request that passes the earlier checks is answered SlotConflict
\* by create_booking_service exactly when a booking stored for its room
\* overlaps it; touching intervals and other rooms' bookings do not count.
C4_ConflictIff ==
    \A q \in ServicePasses[clock] :
        (ServiceOutcome(bookings, heap, q.room, q.start, q.end, now) = "SlotConflict")
        <=> (\E b \in Range(Stored(bookings, heap, q.room)) :
                Overlaps(b, q.start, q.end))
\* create_booking_service has just answered SlotConflict, in a store where
\* another request touches a stored booking of its room and one overlaps a
\* booking of the other room.
C4_Witness ==
    /\ last.op = "create_booking_service"
    /\ last.r = "SlotConflict"
    /\ \E q \in ServicePasses[clock] :
          \E b \in Range(Stored(bookings, heap, q.room)) :
              UtcInstant(q.end) = UtcInstant(b.start)
    /\ \E q \in ServicePasses[clock] :
          \E b \in AllStored(bookings, heap) :
              b.room # q.room /\ Overlaps(b, q.start, q.end)

\* C5 as stated: every request longer than 3 hours is answered
\* DurationExceeded by create_booking_service.
C5_AnyRoom ==
    \A q \in Requests :
        Duration(q.start, q.end) > MaxDurationTicks
        => ServiceOutcome(bookings, heap, q.room, q.start, q.end, now)
              = "DurationExceeded"
\* C5, amended: for a room of the registry, a request longer than 3 hours
\* is answered DurationExceeded, and one of exactly 3 hours is not.
C5_Duration ==
    \A q \in Requests :
        q.room \in RoomList
        => /\ Duration(q.start, q.end) > MaxDurationTicks
              => ServiceOutcome(bookings, heap, q.room, q.start, q.end, now)
                    = "DurationExceeded"
           /\ Duration(q.start, q.end) = MaxDurationTicks
              => ServiceOutcome(bookings, heap, q.room, q.start, q.end, now)
                    # "DurationExceeded"
\* create_booking_service has just answered DurationExceeded, and a booking
\* of exactly 3 hours is stored.
C5_Witness ==
    /\ last.op = "create_booking_service"
    /\ last.r = "DurationExceeded"
    /\ \E b \in AllStored(bookings, heap) :
          Duration(b.start, b.end) = MaxDurationTicks

\* C6 as stated: every request whose start is before now is answered
\* PastBooking by create_booking_service.
C6_AnyRequest ==
    \A q \in Requests :
        UtcInstant(q.start) < clock
        => ServiceOutcome(bookings, heap, q.room, q.start, q.end, now)
              = "PastBooking"
\* C6, amended: a request for a room of the registry, with an interval of
\* more than nothing and at most 3 hours, whose start is before now, is
\* answered PastBooking.
C6_Past ==
    \A q \in Requests :
        (/\ q.room \in RoomList
         /\ Duration(q.start, q.end) > 0
         /\ Duration(q.start, q.end) <= MaxDurationTicks
         /\ UtcInstant(q.start) < clock)
        => ServiceOutcome(bookings, heap, q.room, q.start, q.end, now)
              = "PastBooking"
\* create_booking_service has just answered PastBooking, after the clock
\* has moved.
C6_Witness ==
    /\ last.op = "create_booking_service"
    /\ last.r = "PastBooking"
    /\ clock > NowInit

\* (A step that leaves the clock alone and ends with a handler's response
\* is a call of that handler.)
\* C7: a cancel_booking with the code a create has just returned answers
\* with that booking and takes it, and nothing else, out of the store, so
\* that the room's listing no longer has it; a second cancel_booking with
\* the code is answered InvalidCode.
C7_RoundTrip ==
    [][/\ (/\ last.op \in Creates /\ last.r = "OK"
           /\ last'.op = "cancel_booking" /\ last'.arg = last.b.code)
          => /\ last'.r = "OK"
             /\ last'.b = last.b
             /\ Total(bookings', heap', 1) = Total(bookings, heap, 1) - 1
             /\ AllStored(bookings', heap')
                   = AllStored(bookings, heap) \ {last.b}
             /\ last.b \notin
                   Range(RoomBookings(bookings', heap', last.b.room,
                                      NoDate, NoDate))
       /\ (/\ last.op = "cancel_booking" /\ last.r = "OK"
           /\ last'.op = "cancel_booking" /\ last'.arg = last.arg
           /\ clock' = clock)
          => last'.r = "InvalidCode"]_vars
\* The second cancel_booking: InvalidCode for a code that was issued and
\* is stored no more, the other booking still in the store.
C7_Witness ==
    /\ last.op = "cancel_booking"
    /\ last.r = "InvalidCode"
    /\ last.arg \in 1..(nextCode - 1)
    /\ Total(bookings, heap, 1) = 1

\* C8: cancel_booking answers InvalidCode exactly when no stored booking
\* has the code, and else answers with the stored booking of that code.
C8_CancelAnswer ==
    [][(last'.op = "cancel_booking" /\ clock' = clock)
       => /\ last'.r \in {"OK", "InvalidCode"}
          /\ last'.r = "InvalidCode"
             <=> ~(\E b \in AllStored(bookings, heap) : b.code = last'.arg)
          /\ last'.r = "OK"
             => /\ last'.b \in AllStored(bookings, heap)
                /\ last'.b.code = last'.arg]_vars
\* A booking of the second room of the dict has just been cancelled.
C8_Witness ==
    /\ last.op = "cancel_booking"
    /\ last.r = "OK"
    /\ Len(bookings) >= 2
    /\ last.b.room = bookings[2].room

\* C9: a call that is answered with a failure leaves the dict and every
\* list as they were.
C9_FailureFrame ==
    [][last'.r # "OK" => (bookings' = bookings /\ heap' = heap)]_vars
\* A create answered SlotConflict and a cancel answered InvalidCode, each
\* on a store that holds bookings.
C9_Witness ==
    /\ last.r \in {"SlotConflict", "InvalidCode"}
    /\ Total(bookings, heap, 1) = MaxBookings

\* C10: get_room_bookings answers, leaves the store as it was (no entry is
\* made for the room), and answers with nothing for a room that has no
\* bookings or is not in the registry.
C10_ListFrame ==
    [][last'.op = "get_room_bookings"
       => /\ last'.r = "OK"
          /\ bookings' = bookings /\ heap' = heap
          /\ Keys(bookings') = Keys(bookings)
          /\ (Stored(bookings, heap, last'.b.room) = <<>> \/
              last'.b.room \notin RoomList)
             => last'.out = <<>>]_vars
\* A listing of a room that is not in the registry, answered with nothing
\* while bookings are stored.
C10_Witness ==
    /\ last.op = "get_room_bookings"
    /\ last.b.room \notin RoomList
    /\ last.out = <<>>
    /\ Total(bookings, heap, 1) >= 1

\* The calendar date of the UTC instant a timestamp denotes.
UtcDate(dt) == UtcInstant(dt) \div TicksPerDay

\* C11: with both dates given, get_room_bookings answers with exactly the
\* bookings stored for the room whose start, as a UTC calendar date, is
\* from the first date to the second, both included, in stored order.
C11_DateRange ==
    \A room \in RoomInputs, sd, ed \in DateInputs \ {NoDate} :
        RoomBookings(bookings, heap, room, sd, ed)
            = SelectSeq(Stored(bookings, heap, room),
                        LAMBDA b : sd <= UtcDate(b.start) /\ UtcDate(b.start) <= ed)
\* The same, in the stores where every start was stored as a UTC timestamp
\* (the bookings create_booking_service makes).
C11_UtcStoredDateRange ==
    (\A b \in AllStored(bookings, heap) : b.start.off = 0) => C11_DateRange

\* C12: with creates running on concurrent threads, the booking a create
\* answers with is stored and listed for its room when the call returns,
\* and a stored booking leaves the store by nothing but a cancel that
\* answers with it.
C12_NoLostCreate ==
    [][/\ \A t \in Threads :
            (pc[t] = "store" /\ pc'[t] = "idle")
            => found[t] \in Range(RoomBookings(bookings', heap', found[t].room,
                                               NoDate, NoDate))
       /\ \A b \in AllStored(bookings, heap) :
            b \notin AllStored(bookings', heap')
            => \E t \in Threads :
                  pc[t] = "remove" /\ resp'[t] = Answer("OK", b)]_vars

\* What C13 says of a call ensure_utc(t) that returned u: a t without a
\* zone gives the UTC timestamp of the same wall-clock fields, a t with an
\* offset gives the UTC timestamp of the same instant, and
\* ensure_utc(u) = u.
NormalizedAs(t, u) ==
    /\ u.aware /\ u.off = 0
    /\ ~t.aware => u.wall = t.wall
    /\ t.aware => Instant(u) = Instant(t)
    /\ last.op = "ensure_utc twice" => last.out = <<u>>

\* C13: ensure_utc is total (every call returns), keeps the fields of a
\* timestamp without a zone, keeps the instant of one with an offset, and
\* is idempotent.
C13_Normalizer ==
    last.op \in {"ensure_utc", "ensure_utc twice"}
    => /\ last.r = "OK"
       /\ NormalizedAs(last.b.start, last.b.end)
\* The same without totality: of the calls that return.
C13_WhenReturns ==
    (last.op \in {"ensure_utc", "ensure_utc twice"} /\ last.r = "OK")
    => NormalizedAs(last.b.start, last.b.end)

\* C14: every stored booking has start < end, lasts 3 hours at most, and
\* starts on an hour boundary of its UTC instant.
C14_StoredShape ==
    \A b \in AllStored(bookings, heap) :
        /\ Duration(b.start, b.end) > 0
        /\ Duration(b.start, b.end) <= MaxDurationTicks
        /\ UtcInstant(b.start) % TicksPerHour = 0
\* The same, in the stores where every timestamp was stored as a UTC
\* timestamp (the bookings create_booking_service makes).
C14_UtcStoredShape ==
    (\A b \in AllStored(bookings, heap) : b.start.off = 0 /\ b.end.off = 0)
    => C14_StoredShape

UtcYear(dt) == UtcInstant(dt) \div TicksPerYear
\* A request of at most 3 hours for a room of the registry that starts in
\* the year of the clock and ends in the next one.
EndsNextYear(q) ==
    /\ q.room \in RoomList
    /\ Duration(q.start, q.end) > 0
    /\ Duration(q.start, q.end) <= MaxDurationTicks
    /\ UtcYear(q.start) = clock \div TicksPerYear
    /\ UtcYear(q.end) = clock \div TicksPerYear + 1
\* The booking create_booking_service accepts in a step: not before the
\* now of the call, and within its year from start to end.
AcceptedInYear ==
    (last'.op = "create_booking_service" /\ last'.r = "OK" /\ clock' = clock)
    => /\ UtcInstant(last'.b.start) >= clock
       /\ UtcYear(last'.b.start) = clock \div TicksPerYear
       /\ UtcYear(last'.b.end) = clock \div TicksPerYear

\* C15 as stated: an accepted booking starts at or after the now of its
\* call within the year of now, and every interval of at most 3 hours from
\* this year into the next is answered OutOfYearRange.
C15_AnyStart ==
    /\ [][AcceptedInYear]_vars
    /\ [](\A q \in Requests :
            EndsNextYear(q)
            => ServiceOutcome(bookings, heap, q.room, q.start, q.end, now)
                  = "OutOfYearRange")
\* C15, amended: the same, the interval into the next year starting at or
\* after now and on the hour.
C15_NowAndYear ==
    /\ [][AcceptedInYear]_vars
    /\ [](\A q \in Requests :
            (/\ EndsNextYear(q)
             /\ UtcInstant(q.start) >= clock
             /\ UtcInstant(q.start) % TicksPerHour = 0)
            => ServiceOutcome(bookings, heap, q.room, q.start, q.end, now)
                  = "OutOfYearRange")
\* create_booking_service has just accepted a booking after the clock has
\* moved, and a request into the next year is open to it.
C15_Witness ==
    /\ last.op = "create_booking_service"
    /\ last.r = "OK"
    /\ clock > NowInit
    /\ UtcInstant(last.b.start) >= clock
    /\ \E q \in Requests :
          /\ EndsNextYear(q)
          /\ UtcInstant(q.start) >= clock
          /\ UtcInstant(q.start) % TicksPerHour = 0
          /\ q.start.off # 0

Issued == {uuid4(n) : n \in 1..(nextCode - 1)}
StoredCodes == {b.code : b \in AllStored(bookings, heap)}

C18_CancelRace ==
    [][\A t, u \in Threads :
          (/\ t # u
           /\ rq[t].op = "cancel" /\ pc[t] = "remove" /\ pc'[t] = "idle"
           /\ resp[u] = Answer("OK", found[t])
           /\ found[t] \notin AllStored(bookings, heap))
          => resp'[t].r = "InvalidCode"]_vars

\* C19: every key of the dict is a room of the registry and is there once,
\* every booking is listed under the key that is its room, and each list
\* holds its bookings in the order in which the creates succeeded (the
\* order in which their codes were drawn).
C19_StoreShape ==
    /\ Keys(bookings) \subseteq RoomList
    /\ Cardinality(Keys(bookings)) = Len(bookings)
    /\ \A k \in 1..Len(bookings) :
          LET list == heap[bookings[k].list]
          IN  /\ \A i \in 1..Len(list) : list[i].room = bookings[k].room
              /\ \A i, j \in 1..Len(list) :
                    i < j => list[i].code < list[j].code
\* Two bookings are listed for one room, and a room outside the registry
\* has just been listed.
C19_Witness ==
    /\ \E room \in Keys(bookings) : Len(Stored(bookings, heap, room)) = 2
    /\ last.op = "get_room_bookings"
    /\ last.b.room \notin RoomList

\* C20: create_booking and create_booking_service answer every request
\* alike, on every store at every time: with the same failure, or with a
\* booking of the same room, start and end.
C20_SameOutcome ==
    \A q \in Requests :
        /\ MainOutcome(bookings, heap, q.room, q.start, q.end, now)
              = ServiceOutcome(bookings, heap, q.room, q.start, q.end, now)
        /\ MainOutcome(bookings, heap, q.room, q.start, q.end, now) = "OK"
           => /\ MainStart(q.start) = ServiceStart(q.start)
              /\ MainEnd(q.end) = ServiceEnd(q.end)
\* The same of the requests whose timestamps are both without a zone or
\* both in UTC.
C20_SameOutcomeUtc ==
    \A q \in Requests :
        (q.start.off = 0 /\ q.end.off = 0 /\ ~Mixed(q.start, q.end))
        => /\ MainOutcome(bookings, heap, q.room, q.start, q.end, now)
                 = ServiceOutcome(bookings, heap, q.room, q.start, q.end, now)
           /\ MainStart(q.start) = ServiceStart(q.start)
           /\ MainEnd(q.end) = ServiceEnd(q.end)

====
